---- MODULE Spec2Model ----
(***************************************************************************)
(* A model of CountdownTimer (src/tts_countdown.py): the start/stop        *)
(* lifecycle, the timing loop _run_countdown, the fire-and-forget          *)
(* announcement threads and the observer callback.                         *)
(*                                                                         *)
(* Time is a discrete clock `now`, counted in ticks; TicksPerSec ticks     *)
(* make one second and a wall-clock second starts where now is a multiple  *)
(* of TicksPerSec.  Statements other than time.sleep and Thread.join take  *)
(* no clock time: all scheduling latency of the loop is its wake-up delay  *)
(* (the time between the end of the requested sleep and the thread         *)
(* running again); the delays of an engine add up to MaxDelay at most.     *)
(* Each attribute read or write is one atomic step (the interpreter lock), *)
(* and the steps of the threads interleave freely.                         *)
(***************************************************************************)
EXTENDS Integers, Sequences, FiniteSets, TLC

\* ---------------------------------------------------------------- bounds
TicksPerSec == 2    \* clock ticks per second
MaxSeconds == 3     \* largest duration passed to start
MaxStarts == 2      \* calls of start by the caller
MaxRuns == 2        \* timing loops spawned on one engine
MaxStops == 2       \* calls of stop by the caller
MaxLateSec == 2     \* the wake-ups of an engine are late by this many seconds in all

MaxDelay == MaxLateSec * TicksPerSec
MaxClock == (MaxSeconds + MaxLateSec + 1) * TicksPerSec   \* the clock stops here
TickMs == 1000 \div TicksPerSec

\* ------------------------------------------------------------- constants
JoinTimeoutSec == 1      \* join(timeout=1)
StopLatencyMs == 100     \* the bounded stop latency of the specification
ToleranceMs == 20        \* the boundary accuracy of the specification

\* ------------------------------------------------------------- processes
Caller == 0
Loops == 1..MaxRuns            \* the threads running _run_countdown
Procs == {Caller} \cup Loops
Observers == {"none", "plain", "stopper", "raiser"}
NoThread == 0
NoTime == -1
NoArgs == [seconds |-> 0, cb |-> "none"]

VARIABLES
    running,        \* self._running
    current_count,  \* self._current_count
    end_time,       \* self._end_time, in ticks (NoTime: None)
    count_thread,   \* self._count_thread (NoThread: None)
    callback,       \* self._callback: the kind of observer stored
    now,            \* the clock, in ticks
    pc,             \* where each process is
    wakeAt,         \* per loop: the instant its time.sleep was asked to end
    joinOn,         \* per process: the thread it joins, and until when
    ret,            \* per loop: where it continues when stop() returns inside a callback
    args,           \* the arguments of the caller's start call under way
    result,         \* the outcome of the caller's last call
    ncalls,         \* calls made by the caller: [start, stop]
    runs,           \* one record per spawned timing loop
    annLog,         \* announcement threads dispatched, in dispatch order
    annState,       \* per announcement thread: "waiting", "speaking", "done", "failed"
    spoken,         \* the announcements whose rendering began, in that order
    obsLog,         \* the observer calls made, in order: by whom, with what, when
    countLog,       \* the values written to current_count, in order
    slack,          \* the wake-up delay still to be spent, in ticks
    hist            \* history: stops requested, stops returned, exceptions, lateness

vars == <<running, current_count, end_time, count_thread, callback, now, pc,
          wakeAt, joinOn, ret, args, result, ncalls, runs, annLog, annState,
          spoken, obsLog, countLog, slack, hist>>

engine == <<running, current_count, end_time, count_thread, callback>>
locals == <<wakeAt, joinOn, ret, args, slack>>
logs == <<annLog, annState, spoken, obsLog, countLog>>

Max(a, b) == IF a >= b THEN a ELSE b
Min(a, b) == IF a <= b THEN a ELSE b

\* int(x): Python truncates a float towards zero.  n is a duration in ticks.
IntSeconds(n) == IF n >= 0 THEN n \div TicksPerSec ELSE -((-n) \div TicksPerSec)

NewCount_NoPlusOne(end, t) == IntSeconds(end - t)

\* int((self._end_time - datetime.now()).total_seconds()) + 1
NewCount(end, t) == IntSeconds(end - t) + 1

\* 1.0 - now.microsecond / 1_000_000, in ticks
TimeUntilNextSecond(t) == TicksPerSec - (t % TicksPerSec)

\* min(time_until_next_second, time_to_next)
SleepTime(end, t) == Min(TimeUntilNextSecond(t), end - t)

Init ==
    /\ running = FALSE
    /\ current_count = 0
    /\ end_time = NoTime
    /\ count_thread = NoThread
    /\ callback = "none"
    /\ now \in 0..(TicksPerSec - 1)
    /\ pc = [p \in Procs |-> IF p = Caller THEN "idle" ELSE "unborn"]
    /\ wakeAt = [t \in Loops |-> 0]
    /\ joinOn = [p \in Procs |-> [thread |-> NoThread, until |-> 0]]
    /\ ret = [t \in Loops |-> "none"]
    /\ args = NoArgs
    /\ result = "none"
    /\ ncalls = [start |-> 0, stop |-> 0]
    /\ runs = <<>>
    /\ annLog = <<>>
    /\ annState = <<>>
    /\ spoken = <<>>
    /\ obsLog = <<>>
    /\ countLog = <<>>
    /\ slack = MaxDelay
    /\ hist = [stopped |-> {},      \* loops on which stop() set running to False
               early |-> {},        \* ... while current_count was above 0
               stopAt |-> [t \in Loops |-> NoTime],  \* ... and when (live loops)
               sealed |-> {},       \* loops spawned before a stop() that returned
               raised |-> {},       \* loops ended by an exception
               late |-> [t \in Loops |-> 0],         \* the largest wake-up delay
               prev |-> "none",     \* the caller's previous call
               case |-> "none",     \* when the caller's stop() under way was called
               pre |-> <<>>]        \* the fields as that call found them


\* -------------------------------------------------------------- helpers
Goto(p, l) == pc' = [pc EXCEPT ![p] = l]
Started == 1..Len(runs)          \* the timing loops spawned so far

\* threading.Thread(target=speak, daemon=True).start(): a new announcement
\* thread, not yet holding self._lock
Dispatch(by, kind, n) ==
    /\ annLog' = Append(annLog, [by |-> by, kind |-> kind, n |-> n])
    /\ annState' = Append(annState, "waiting")

speak_count(by, count) == Dispatch(by, "count", count)
speak_final(by) == Dispatch(by, "final", 0)

SetCount(v) ==
    /\ current_count' = v
    /\ countLog' = Append(countLog, v)

\* ---------------------------------------------------------------- start
StartRejects_Never == FALSE
DurationInvalid_Negative(seconds) == seconds < 0

\* if self._running: raise RuntimeError
StartRejects == running

\* if seconds <= 0: raise ValueError
DurationInvalid(seconds) == seconds <= 0

\* start(), lines 86-90: the two checks
Start_call(seconds, cb) ==
    /\ pc[Caller] = "idle"
    /\ ncalls.start < MaxStarts
    /\ Len(runs) < MaxRuns
    /\ ncalls' = [ncalls EXCEPT !.start = @ + 1]
    /\ IF StartRejects
         THEN /\ result' = "RuntimeError"
              /\ hist' = [hist EXCEPT !.prev = "start"]
              /\ UNCHANGED <<pc, args>>
         ELSE IF DurationInvalid(seconds)
         THEN /\ result' = "ValueError"
              /\ hist' = [hist EXCEPT !.prev = "start"]
              /\ UNCHANGED <<pc, args>>
         ELSE /\ result' = "none"
              /\ args' = [seconds |-> seconds, cb |-> cb]
              /\ Goto(Caller, "l92")
              /\ UNCHANGED hist
    /\ UNCHANGED <<engine, now, wakeAt, joinOn, ret, slack, runs, logs>>

Start_l92 ==
    /\ pc[Caller] = "l92"
    /\ running' = TRUE
    /\ Goto(Caller, "l93")
    /\ UNCHANGED <<current_count, end_time, count_thread, callback, now, locals,
                   result, ncalls, runs, logs, hist>>

Start_l93 ==
    /\ pc[Caller] = "l93"
    /\ SetCount(args.seconds)
    /\ Goto(Caller, "l94")
    /\ UNCHANGED <<running, end_time, count_thread, callback, now, locals, result,
                   ncalls, runs, annLog, annState, spoken, obsLog, hist>>

Start_l94 ==
    /\ pc[Caller] = "l94"
    /\ callback' = args.cb
    /\ Goto(Caller, "l96")
    /\ UNCHANGED <<running, current_count, end_time, count_thread, now, locals,
                   result, ncalls, runs, logs, hist>>

\* self._end_time = datetime.now() + timedelta(seconds=seconds)
EndTime(t, seconds) == t + seconds * TicksPerSec

Start_l96 ==
    /\ pc[Caller] = "l96"
    /\ end_time' = EndTime(now, args.seconds)
    /\ Goto(Caller, "l99")
    /\ UNCHANGED <<running, current_count, count_thread, callback, now, locals,
                   result, ncalls, runs, logs, hist>>

\* start_immediately keeps its default, True
Start_l99 ==
    /\ pc[Caller] = "l99"
    /\ speak_count(Len(runs) + 1, current_count)
    /\ Goto(Caller, "l101")
    /\ UNCHANGED <<engine, now, locals, result, ncalls, runs, spoken, obsLog,
                   countLog, hist>>

\* lines 101-105: the handle is stored and the thread started
Start_l101 ==
    /\ pc[Caller] = "l101"
    /\ LET t == Len(runs) + 1 IN
         /\ count_thread' = t
         /\ runs' = Append(runs, [seconds |-> args.seconds, cb |-> args.cb,
                                  endAt |-> end_time])
         /\ pc' = [pc EXCEPT ![Caller] = "idle", ![t] = "l110"]
    /\ result' = "ok"
    /\ args' = NoArgs
    /\ hist' = [hist EXCEPT !.prev = "start"]
    /\ UNCHANGED <<running, current_count, end_time, callback, now, wakeAt, joinOn, ret,
                   slack, ncalls, logs>>

\* ----------------------------------------------------------------- stop
\* stop() is run by the caller, or by a timing loop whose observer calls it.
\* When the caller calls stop(): right after another stop(), before any
\* start(), after the natural completion of every run, or during a run.
StopCase ==
    IF hist.prev = "stop" THEN "again"
    ELSE IF Len(runs) = 0 THEN "fresh"
    ELSE IF \A t \in Started : pc[t] = "dead" /\ t \notin hist.stopped THEN "completed"
    ELSE "midrun"

Fields == <<running, current_count, end_time, count_thread>>

Stop_call ==
    /\ pc[Caller] = "idle"
    /\ ncalls.stop < MaxStops
    /\ ncalls' = [ncalls EXCEPT !.stop = @ + 1]
    /\ result' = "none"
    /\ hist' = [hist EXCEPT !.case = StopCase, !.pre = Fields]
    /\ Goto(Caller, "s166")
    /\ UNCHANGED <<engine, now, locals, runs, logs>>

Stop_l166(p) ==
    /\ pc[p] = "s166"
    /\ running' = FALSE
    /\ hist' = [hist EXCEPT
                  !.stopped = @ \cup Started,
                  !.early = @ \cup (IF current_count > 0 THEN Started ELSE {}),
                  !.stopAt = [t \in Loops |->
                                IF t \in Started /\ pc[t] # "dead" /\ @[t] = NoTime
                                  THEN now ELSE @[t]]]
    /\ Goto(p, "s167")
    /\ UNCHANGED <<current_count, end_time, count_thread, callback, now, locals,
                   result, ncalls, runs, logs>>

StopJoins_Always(h) == TRUE

\* if self._count_thread:
StopJoins(h) == h # NoThread

\* Thread.join raises RuntimeError when asked to join the current thread
JoinRaises(p, h) == h = p

\* lines 167-168.  The exception leaves the observer call and reaches the
\* finally clause of _run_countdown.
\* An exception leaves stop().  In the caller it is the outcome of the call;
\* in a timing loop it leaves the observer call too and reaches the finally
\* clause of _run_countdown.
Raise(p, err) ==
    IF p = Caller
      THEN /\ Goto(p, "idle")
           /\ result' = err
           /\ hist' = [hist EXCEPT !.prev = "stop", !.case = "none", !.pre = <<>>]
      ELSE /\ Goto(p, "l143")
           /\ hist' = [hist EXCEPT !.raised = @ \cup {p}]
           /\ UNCHANGED result

\* lines 167-168.  None has no join (AttributeError).
Stop_l167(p) ==
    /\ pc[p] = "s167"
    /\ IF StopJoins(count_thread)
         THEN IF count_thread = NoThread
              THEN /\ Raise(p, "AttributeError")
                   /\ UNCHANGED joinOn
              ELSE IF JoinRaises(p, count_thread)
              THEN /\ Raise(p, "RuntimeError")
                   /\ UNCHANGED joinOn
              ELSE /\ joinOn' = [joinOn EXCEPT ![p] =
                         [thread |-> count_thread,
                          until |-> now + JoinTimeoutSec * TicksPerSec]]
                   /\ Goto(p, "join")
                   /\ UNCHANGED <<hist, result>>
         ELSE /\ Goto(p, "s169")
              /\ UNCHANGED <<joinOn, hist, result>>
    /\ UNCHANGED <<engine, now, wakeAt, ret, args, slack, ncalls, runs, logs>>

JoinDone(p) == pc[joinOn[p].thread] = "dead"
JoinTimedOut(p) == now >= joinOn[p].until

Stop_join(p) ==
    /\ pc[p] = "join"
    /\ JoinDone(p) \/ JoinTimedOut(p)
    /\ joinOn' = [joinOn EXCEPT ![p] = [thread |-> NoThread, until |-> 0]]
    /\ Goto(p, "s169")
    /\ UNCHANGED <<engine, now, wakeAt, ret, args, slack, result, ncalls, runs, logs,
                   hist>>

\* self._count_thread = None, and stop() returns
Stop_l169(p) ==
    /\ pc[p] = "s169"
    /\ count_thread' = NoThread
    /\ IF p = Caller
         THEN /\ Goto(p, "idle")
              /\ result' = "ok"
              /\ hist' = [hist EXCEPT !.sealed = @ \cup Started, !.prev = "stop",
                                       !.case = "none", !.pre = <<>>]
         ELSE /\ Goto(p, ret[p])
              /\ hist' = [hist EXCEPT !.sealed = @ \cup Started]
              /\ UNCHANGED result
    /\ UNCHANGED <<running, current_count, end_time, callback, now, locals, ncalls,
                   runs, logs>>


\* --------------------------------------------------------- the observer
\* self._callback(c) on the timing loop t, which goes on at `next` when the
\* call returns.  A "stopper" observer calls stop(); a "raiser" observer
\* raises an exception, which leaves _run_countdown through its finally
\* clause (there is no except clause).
Invoke(t, c, next) ==
    IF callback = "none"
      THEN /\ Goto(t, next)
           /\ UNCHANGED <<obsLog, ret, hist>>
      ELSE /\ obsLog' = Append(obsLog, [by |-> t, c |-> c, at |-> now])
           /\ IF callback = "stopper"
                THEN /\ Goto(t, "s166")
                     /\ ret' = [ret EXCEPT ![t] = next]
                     /\ UNCHANGED hist
                ELSE IF callback = "raiser"
                THEN /\ Raise(t, "Exception")
                     /\ UNCHANGED ret
                ELSE /\ Goto(t, next)
                     /\ UNCHANGED <<ret, hist>>

\* ------------------------------------------------------ _run_countdown
\* while self._running and self._current_count > 0:
LoopGoesOn == running /\ current_count > 0

Run_l110(t) ==
    /\ pc[t] = "l110"
    /\ Goto(t, IF LoopGoesOn THEN "l111" ELSE "l138")
    /\ UNCHANGED <<engine, now, locals, result, ncalls, runs, logs, hist>>

\* time_to_next <= 0
TimeIsUp(end, t) == end - t <= 0

\* lines 111-124, up to the call of time.sleep
Run_l111(t) ==
    /\ pc[t] = "l111"
    /\ IF TimeIsUp(end_time, now)
         THEN /\ SetCount(0)
              /\ Goto(t, "l138")
              /\ UNCHANGED wakeAt
         ELSE /\ wakeAt' = [wakeAt EXCEPT ![t] = now + SleepTime(end_time, now)]
              /\ Goto(t, "sleep")
              /\ UNCHANGED <<current_count, countLog>>
    /\ UNCHANGED <<running, end_time, count_thread, callback, now, joinOn, ret, args,
                   slack, result, ncalls, runs, annLog, annState, spoken, obsLog, hist>>

\* time.sleep returns, at the requested instant or later
Run_wake(t) ==
    /\ pc[t] = "sleep"
    /\ now >= wakeAt[t]
    /\ hist' = [hist EXCEPT !.late[t] = Max(@, now - wakeAt[t])]
    /\ wakeAt' = [wakeAt EXCEPT ![t] = 0]
    /\ Goto(t, "l126")
    /\ UNCHANGED <<engine, now, joinOn, ret, args, slack, result, ncalls, runs, logs>>

\* if not self._running: break
Run_l126(t) ==
    /\ pc[t] = "l126"
    /\ Goto(t, IF ~running THEN "l138" ELSE "l130")
    /\ UNCHANGED <<engine, now, locals, result, ncalls, runs, logs, hist>>

\* if new_count < self._current_count
Crossed(new_count, count) == new_count < count

Run_l130(t) ==
    /\ pc[t] = "l130"
    /\ LET new_count == NewCount(end_time, now) IN
         IF Crossed(new_count, current_count)
           THEN /\ SetCount(new_count)
                /\ Goto(t, "l133")
           ELSE /\ Goto(t, "l110")
                /\ UNCHANGED <<current_count, countLog>>
    /\ UNCHANGED <<running, end_time, count_thread, callback, now, locals, result,
                   ncalls, runs, annLog, annState, spoken, obsLog, hist>>

Run_l133(t) ==
    /\ pc[t] = "l133"
    /\ speak_count(t, current_count)
    /\ Goto(t, "l134")
    /\ UNCHANGED <<engine, now, locals, result, ncalls, runs, spoken, obsLog,
                   countLog, hist>>

Run_l134(t) ==
    /\ pc[t] = "l134"
    /\ Invoke(t, current_count, "l110")
    /\ UNCHANGED <<engine, now, wakeAt, joinOn, args, slack, result, ncalls, runs,
                   annLog, annState, spoken, countLog>>

\* if self._current_count == 0 and self._running:
Completed == current_count = 0 /\ running

Run_l138(t) ==
    /\ pc[t] = "l138"
    /\ Goto(t, IF Completed THEN "l139" ELSE "l143")
    /\ UNCHANGED <<engine, now, locals, result, ncalls, runs, logs, hist>>

Run_l139(t) ==
    /\ pc[t] = "l139"
    /\ speak_final(t)
    /\ Goto(t, "l140")
    /\ UNCHANGED <<engine, now, locals, result, ncalls, runs, spoken, obsLog,
                   countLog, hist>>

Run_l140(t) ==
    /\ pc[t] = "l140"
    /\ Invoke(t, 0, "l143")
    /\ UNCHANGED <<engine, now, wakeAt, joinOn, args, slack, result, ncalls, runs,
                   annLog, annState, spoken, countLog>>

\* finally: self._running = False, and the thread ends
Run_l143(t) ==
    /\ pc[t] = "l143"
    /\ running' = FALSE
    /\ hist' = [hist EXCEPT !.stopAt[t] = NoTime]
    /\ ret' = [ret EXCEPT ![t] = "none"]
    /\ Goto(t, "dead")
    /\ UNCHANGED <<current_count, end_time, count_thread, callback, now, wakeAt, joinOn,
                   args, slack, result, ncalls, runs, logs>>

\* -------------------------------------------------- announcement threads
LockFree_Always == TRUE
LockFree_Leaky == \A j \in 1..Len(annState) : annState[j] \notin {"speaking", "failed"}

\* self._lock is free: no announcement thread is inside a with block
LockFree == \A j \in 1..Len(annState) : annState[j] # "speaking"

\* if count > 0: (the completion phrase is always said)
Says(a) == a.kind = "final" \/ a.n > 0

\* with self._lock: the thread takes the lock and begins to render; a
\* thread with nothing to say releases the lock at once
Speak_acquire(i) ==
    /\ annState[i] = "waiting"
    /\ LockFree
    /\ IF Says(annLog[i])
         THEN /\ annState' = [annState EXCEPT ![i] = "speaking"]
              /\ spoken' = Append(spoken, i)
         ELSE /\ annState' = [annState EXCEPT ![i] = "done"]
              /\ UNCHANGED spoken
    /\ UNCHANGED <<engine, now, pc, locals, result, ncalls, runs, annLog, obsLog,
                   countLog, hist>>

\* runAndWait returns and the lock is released
Speak_release(i) ==
    /\ annState[i] = "speaking"
    /\ annState' = [annState EXCEPT ![i] = "done"]
    /\ UNCHANGED <<engine, now, pc, locals, result, ncalls, runs, annLog, spoken,
                   obsLog, countLog, hist>>

\* say or runAndWait raises: the with block releases the lock and the
\* exception ends the announcement thread
Speak_fail(i) ==
    /\ annState[i] = "speaking"
    /\ annState' = [annState EXCEPT ![i] = "failed"]
    /\ UNCHANGED <<engine, now, pc, locals, result, ncalls, runs, annLog, spoken,
                   obsLog, countLog, hist>>

\* ------------------------------------------------------------ the clock
\* A process that is not asleep, joining or idle runs before the clock moves;
\* a sleeper is late by at most MaxDelay; a join ends when it can.
Overdue(p) == pc[p] = "sleep" /\ now >= wakeAt[p]

Waits(p) ==
    \/ pc[p] \in {"idle", "unborn", "dead"}
    \/ pc[p] = "sleep" /\ (Overdue(p) => slack > 0)
    \/ pc[p] = "join" /\ ~JoinDone(p) /\ ~JoinTimedOut(p)

\* The clock matters while a process waits on it: a step of the clock
\* with no process asleep or joining is left out.
Tick ==
    /\ now < MaxClock
    /\ \E p \in Procs : pc[p] \in {"sleep", "join"}
    /\ \A p \in Procs : Waits(p)
    /\ now' = now + 1
    /\ slack' = IF \E p \in Loops : Overdue(p) THEN slack - 1 ELSE slack
    /\ UNCHANGED <<engine, pc, wakeAt, joinOn, ret, args, result, ncalls, runs, logs,
                   hist>>

\* ------------------------------------------------------- specification
Durations == (0 - 1)..MaxSeconds

\* A call of start that begins a second run on an engine that ran before
Restart(seconds) == Len(runs) > 0 /\ ~StartRejects /\ ~DurationInvalid(seconds)

StartSteps == Start_l92 \/ Start_l93 \/ Start_l94 \/ Start_l96 \/ Start_l99 \/ Start_l101

StopStep == \E p \in Procs : Stop_l166(p) \/ Stop_l167(p) \/ Stop_join(p) \/ Stop_l169(p)

LoopStep ==
    \E t \in Loops :
        \/ Run_l110(t) \/ Run_l111(t) \/ Run_wake(t) \/ Run_l126(t) \/ Run_l130(t)
        \/ Run_l133(t) \/ Run_l134(t) \/ Run_l138(t) \/ Run_l139(t) \/ Run_l140(t)
        \/ Run_l143(t)

SpeakStep == \E i \in 1..Len(annLog) :
                 Speak_acquire(i) \/ Speak_release(i) \/ Speak_fail(i)

\* Spec: one run per engine.  The caller calls start and stop at any
\* instants, in any order; a start that would begin a second run is left to
\* SpecRestart.
FirstStart == \E seconds \in Durations, cb \in Observers :
                  ~Restart(seconds) /\ Start_call(seconds, cb)

Next == FirstStart \/ StartSteps \/ Stop_call \/ StopStep \/ LoopStep \/ Tick

Spec == Init /\ [][Next]_vars

\* SpecRestart: the engine is used again.  The caller runs start, stop,
\* start, ... with no pause between the calls, with a plain observer.
ScriptStart == \E seconds \in 1..MaxSeconds :
                   ncalls.start = ncalls.stop /\ Start_call(seconds, "plain")

ScriptStop == ncalls.start = ncalls.stop + 1 /\ ncalls.start < MaxStarts /\ Stop_call

ScriptTick == (pc[Caller] # "idle" \/ ncalls.start = MaxStarts) /\ Tick

NextRestart == ScriptStart \/ StartSteps \/ ScriptStop \/ StopStep \/ LoopStep
                   \/ ScriptTick

SpecRestart == Init /\ [][NextRestart]_vars


\* SpecSpeak: one run, never stopped, together with the announcement
\* threads it dispatches.  A thread takes the lock and renders at any time.
SpeakStart == \E seconds \in 1..MaxSeconds :
                  ncalls.start = 0 /\ Start_call(seconds, "plain")

NextSpeak == SpeakStart \/ StartSteps \/ LoopStep \/ SpeakStep \/ Tick

SpecSpeak == Init /\ [][NextSpeak]_vars

\* SpecLive: SpecSpeak where the clock advances and the caller and the
\* timing loop keep being scheduled.  Nothing is assumed of the announcement
\* threads: a rendering may last for ever.
SpecLive == SpecSpeak /\ WF_vars(StartSteps \/ LoopStep \/ Tick)

\* --------------------------------------------------------------- claims
ObsOf(t) == SelectSeq(obsLog, LAMBDA e : e.by = t)
ObsValues(t) == [i \in 1..Len(ObsOf(t)) |-> ObsOf(t)[i].c]
Finals(t) == Len(SelectSeq(annLog, LAMBDA a : a.by = t /\ a.kind = "final"))
Zeros(t) == Len(SelectSeq(obsLog, LAMBDA e : e.by = t /\ e.c = 0))

\* <<n, n-1, ..., 1, 0>> and <<n-1, ..., 1, 0>>
DownFrom(n) == [i \in 1..(n + 1) |-> n + 1 - i]
DownBelow(n) == [i \in 1..n |-> n - i]

IsPrefix(a, b) == Len(a) <= Len(b) /\ \A i \in 1..Len(a) : a[i] = b[i]

\* The only run of the engine, with an observer, on which stop() was never
\* called, has ended.
UnstoppedRunEnded ==
    /\ Len(runs) = 1
    /\ pc[1] = "dead"
    /\ 1 \notin hist.stopped
    /\ runs[1].cb = "plain"

C2_CompletionExactlyOnce ==
    \A t \in Started :
        /\ Finals(t) <= 1
        /\ Zeros(t) <= 1
        /\ pc[t] = "dead" /\ t \notin hist.stopped
               => Finals(t) = 1 /\ (runs[t].cb # "none" => Zeros(t) = 1)
        /\ t \in hist.early => Finals(t) = 0 /\ Zeros(t) = 0

\* The steps of this transition by which a loop already sealed (a stop()
\* called after it was spawned has returned) dispatches an announcement or
\* calls the observer.
LateWork ==
    {a \in {annLog'[i] : i \in (Len(annLog) + 1)..Len(annLog')} : a.by \in hist.sealed}
      \cup
    {e \in {obsLog'[i] : i \in (Len(obsLog) + 1)..Len(obsLog')} : e.by \in hist.sealed}

\* C3: once a call of stop() has returned, the timing loop of that run
\* dispatches no new announcement and makes no new observer call.
C3_NothingAfterStopReturns == [][LateWork = {}]_vars

\* A call of start by the caller
StartCalled == ncalls'.start = ncalls.start + 1

Untouched == UNCHANGED <<engine, pc, runs, annLog, obsLog, countLog>>

\* C4: start called while running is true fails with the already-running
\* error (RuntimeError) and changes nothing: the fields, the handle, the
\* threads and the announcements dispatched stay as they are.
C4_StartWhileRunningRejected ==
    [][StartCalled /\ running => result' = "RuntimeError" /\ Untouched]_vars

C4_Witness == result = "RuntimeError" /\ running /\ pc[1] = "sleep" /\ ncalls.start = 2

\* C5: start called on a non-running engine is accepted only with a
\* positive duration; with a duration <= 0 it fails with the
\* invalid-duration error (ValueError) and changes nothing.
C5_InvalidDurationRejected ==
    [][StartCalled /\ ~running =>
          \/ result' = "ValueError" /\ Untouched
          \/ pc'[Caller] = "l92" /\ args'.seconds > 0]_vars

C5_Witness == result = "ValueError" /\ ~running /\ Len(runs) = 0 /\ obsLog = <<>>

\* C6: stop() called from inside an observer callback returns without
\* raising an error.
C6_StopInsideObserverReturns == \A t \in hist.raised : runs[t].cb # "stopper"

\* C7: utterances are rendered in the order in which they were dispatched:
\* if A was dispatched before B, the rendering of A starts before that of B.
C7_SpokenInDispatchOrder ==
    \A i, j \in 1..Len(spoken) : i < j => spoken[i] < spoken[j]

\* C8: after stop() is called during a run the timing loop has exited
\* within the bounded stop latency (100 ms).
C8_LoopExitsWithinStopLatency ==
    \A t \in Started :
        pc[t] # "dead" /\ hist.stopAt[t] # NoTime
            => (now - hist.stopAt[t]) * TickMs <= StopLatencyMs

\* C9: in a run never stopped whose wake-ups are each late by less than one
\* second, current_count takes exactly the values N, N-1, ..., 1, 0.
C9_CountsStepByOne ==
    Len(runs) = 1 /\ 1 \notin hist.stopped /\ hist.late[1] < TicksPerSec
        => /\ IsPrefix(countLog, DownFrom(runs[1].seconds))
           /\ pc[1] = "dead" => countLog = DownFrom(runs[1].seconds)

\* The caller's stop() returns or raises in this step.
StopEnds == pc[Caller] \in {"s167", "s169"} /\ pc'[Caller] = "idle"

\* C10: stop() called by the caller never raises; called before any start
\* or right after another stop() it leaves running, current_count, end_time
\* and the handle as it found them, and called after natural completion it
\* leaves running, current_count and end_time as it found them, with
\* running false and no handle afterwards.
C10_StopIdempotent ==
    [][StopEnds =>
          /\ result' = "ok"
          /\ ~running' /\ count_thread' = NoThread
          /\ hist.case \in {"fresh", "again"} => Fields' = hist.pre
          /\ hist.case = "completed" =>
                 <<running', current_count', end_time'>> =
                     <<hist.pre[1], hist.pre[2], hist.pre[3]>>]_vars

C10_Witness ==
    /\ hist.prev = "stop" /\ ncalls.stop = 2 /\ pc[Caller] = "idle"
    /\ Len(runs) = 1 /\ current_count > 0 /\ result = "ok"

\* The announcement threads inside the say/runAndWait section
Speaking == {i \in 1..Len(annState) : annState[i] = "speaking"}

\* C11: at most one announcement thread is inside the say/runAndWait
\* section at any time, whatever the number of threads dispatched by start
\* and by the timing loop.
C11_OneSpeakerAtATime == Cardinality(Speaking) <= 1

\* one thread renders while a thread of start and one of the loop wait
C11_Witness ==
    /\ Cardinality(Speaking) = 1
    /\ \E i, j \in 1..Len(annLog) :
           /\ annState[i] = "waiting" /\ annState[j] = "waiting"
           /\ annLog[i].n = MaxSeconds /\ annLog[j].n < MaxSeconds
\* The announcer is busy or broken: a thread renders, a thread waits for
\* the lock, or an utterance failed.
AnnouncerBusy == \E i \in 1..Len(annState) : annState[i] # "done"

\* The timing loop t is at a statement (not asleep, not ended)
AtStatement(t) == pc[t] \notin {"unborn", "sleep", "dead"}

\* While the announcer is busy or broken the timing loop can take its next
\* step, no exception has ended it, and when it has ended with the count at
\* 0 the completion announcement was dispatched; after a failed utterance
\* a waiting thread can take the lock unless another thread renders.
AnnouncerIsolated ==
    /\ \A t \in Started :
           /\ AtStatement(t) => ENABLED LoopStep
           /\ Overdue(t) => ENABLED Run_wake(t)
           /\ pc[t] = "dead" /\ current_count = 0 => Finals(t) = 1
    /\ hist.raised = {}
    /\ (\E i \in 1..Len(annState) : annState[i] = "failed")
           /\ (\E j \in 1..Len(annState) : annState[j] = "waiting")
           /\ Speaking = {}
         => ENABLED SpeakStep

\* C12: the progress of the timing loop never depends on the announcer:
\* whatever the announcement threads do (render for ever, queue on the lock,
\* fail), the loop takes its next step, every run started comes to its end,
\* reaching the completion step when the count reaches 0, and a failed
\* utterance releases the lock for the later ones.
C12_LoopIndependentOfAnnouncer ==
    /\ []AnnouncerIsolated
    /\ (pc[Caller] = "l92") ~> (Len(runs) = 1 /\ pc[1] = "dead")

\* the run completed while the first utterance failed, a later one was
\* rendered after it and another still waits for the lock
C12_Witness ==
    /\ Len(runs) = 1 /\ pc[1] = "dead" /\ current_count = 0 /\ Finals(1) = 1
    /\ Len(annState) >= 3 /\ Len(spoken) >= 2
    /\ annState[spoken[1]] = "failed"
    /\ \E j \in 1..Len(annState) : annState[j] = "waiting"
\* The timing loops alive: threads of _run_countdown started and not ended
Alive == {t \in Loops : pc[t] \notin {"unborn", "dead"}}

\* C13: at most one timing loop is alive on an engine at any time, after
\* any sequence of start and stop calls, also after a stop() whose bounded
\* wait expired while the loop was still asleep, followed by a new start.
C13_AtMostOneLoopAlive == Cardinality(Alive) <= 1
\* The announcements dispatched and the observer calls made in this step
NewWork ==
    {annLog'[i] : i \in (Len(annLog) + 1)..Len(annLog')}
      \cup {obsLog'[i] : i \in (Len(obsLog) + 1)..Len(obsLog')}

\* C14: once running is false for a run (stop() wrote it, or the loop
\* ended), the timing loop dispatches no further announcement and makes no
\* further observer call for that run, whatever the interleaving of that
\* write with the loop's checks of the flag.
C14_NoWorkOnceNotRunning ==
    [][~running /\ Len(runs) = 1 => NewWork = {}]_vars
\* C15: current_count is never negative and the observer is never called
\* with a negative value, whatever the wake-up delay of the timing loop.
C15_CountNeverNegative ==
    /\ current_count >= 0
    /\ \A i \in 1..Len(obsLog) : obsLog[i].c >= 0
\* The counts announced and the counts passed to the observer by the
\* timing loops in this step
NewCounts ==
    {annLog'[i].n : i \in {j \in (Len(annLog) + 1)..Len(annLog') :
                              annLog'[j].by \in Started}}
      \cup {obsLog'[i].c : i \in (Len(obsLog) + 1)..Len(obsLog')}

\* C16: when end_time has been reached or passed (remaining <= 0) the
\* timing loop goes to the count 0 and the completion step and dispatches
\* no announcement and no observer call for a count above 0, at the check
\* at the top of an iteration and at the recomputation after the sleep.
C16_OvershootSkipsToZero ==
    [][Len(runs) = 1 /\ TimeIsUp(end_time, now) => \A c \in NewCounts : c <= 0]_vars
Abs(x) == IF x >= 0 THEN x ELSE 0 - x

\* The instant at which the count c of the run t is due: end_time - c
DueAt(t, c) == runs[t].endAt - c * TicksPerSec

\* C17 (for the runs that do not start on a whole wall-clock second): with
\* no wake-up delay, the observer call for each count c of a run happens
\* within the tolerance (20 ms) of the instant end_time - c.
C17_ObserverCallsOnTheBoundary ==
    \A i \in 1..Len(obsLog) :
        LET e == obsLog[i] IN
          hist.late[e.by] = 0 /\ runs[e.by].endAt % TicksPerSec # 0
              => Abs(e.at - DueAt(e.by, e.c)) * TickMs <= ToleranceMs
\* C18: while running is true within a run, each change of current_count
\* is a decrease by exactly 1 or an assignment of 0; it never increases.
C18_CountDropsByOneOrToZero ==
    [][running /\ Len(runs) = 1 /\ current_count' # current_count
          => current_count' = current_count - 1 \/ current_count' = 0]_vars
\* The run t has terminated in the completed state
RunCompleted(t) ==
    /\ Len(runs) >= t /\ pc[t] = "dead"
    /\ current_count = 0 /\ ~running
    /\ Finals(t) >= 1 /\ Zeros(t) >= 1

\* C19: every run that is started and never stopped eventually terminates
\* in the completed state (current_count = 0, the completion announcement
\* dispatched, the observer called with 0, running false), whatever the
\* wake-up delays, provided the clock advances and the threads are scheduled.
C19_RunEventuallyCompletes == (pc[Caller] = "l92") ~> RunCompleted(1)
\* C20: an observer that raises does not stop the countdown: a run never
\* stopped, woken on time, whose observer raises still goes on to its
\* completion step.
C20_RaisingObserverDoesNotEndRun ==
    \A t \in Started :
        runs[t].cb = "raiser" /\ pc[t] = "dead" /\ t \notin hist.stopped
            /\ hist.late[t] = 0
          => Finals(t) = 1

====
